---- MODULE Spec2Model ----
(***************************************************************************)
(* Model of the phylogenetic workflow orchestration of parsl_workflow.py   *)
(* (function main) and of the app declarations of apps.py.                 *)
(*                                                                         *)
(* main is a sequential program that submits apps to the data-flow kernel  *)
(* and blocks in wait_for_all.  Every app call returns a future at once;   *)
(* the kernel queues a task on its executor when the futures found in its  *)
(* inputs have resolved, and fails it without running it when one of them  *)
(* has failed.                                                             *)
(*                                                                         *)
(* The state is the list of submitted tasks (one record per app call, in   *)
(* submission order, the index being the task id / future), the queues of  *)
(* the executors, the local variables of main and main's position.         *)
(***************************************************************************)
EXTENDS Naturals, Integers, Sequences, FiniteSets, TLC

\* ------------------------------------------------------------------ bounds
MaxDatasets == 2          \* longest work_list explored
MaxFiles == 3             \* most input files matched by glob in one dataset
MaxFailures == 2          \* most task bodies that fail in one run
LimitSingleThread == 1    \* slots of executor 'single_thread'
LimitRaxml == 2           \* slots of executor 'raxml'
LimitSnaq == 1            \* slots of executor 'snaq'

\* --------------------------------------------------------- configuration
TreeMethodValues == {"ML-RAXML", "ML-IQTREE", "BI_MRBAYES", "OTHER"}
NetworkMethodValues == {"MPL", "MP", "OTHER"}
RecognizedTree == {"ML-RAXML", "ML-IQTREE", "BI_MRBAYES"}
RecognizedNetwork == {"MPL", "MP"}

\* Directory names of the datasets of bio_config.workload, as character
\* sequences (main iterates over the characters of a path at line 77).
DirNames == <<"a", "b", "c", "d", "e", "f">>
Basedir(d) == <<DirNames[d]>>

\* The workloads explored: n consecutive directories, from "a" or from "b"
\* (the path "b/bucky" repeats a character, "a/bucky" does not)
Workloads == {[d \in 1..n |-> Basedir(d + o)] : n \in 0..MaxDatasets, o \in {0, 1}}

\* os.path.join(a, b) for a non-empty a that does not end with a separator
path_join(a, b) == a \o <<"/">> \o b

Range(s) == {s[x] : x \in 1..Len(s)}
Min(S) == CHOOSE x \in S : \A y \in S : x <= y

VARIABLES
    tree_method,      \* bio_config.tree_method
    network_method,   \* bio_config.network_method
    work_list,        \* bio_config.workload: the basedir of each dataset
    datalist,         \* per dataset begun, the number of files glob matched
    tasks,            \* tasks known to the data-flow kernel, by task id
    queue,            \* per executor, the ready tasks in submission order
    pc,               \* position of main
    idx,              \* position of the running for-loop in work_list
    k,                \* position of the inner for-loop (datalist / prune_trees)
    result,           \* main's local 'result'
    ret_tree,         \* main's local 'ret_tree'
    ret_mbsum,        \* main's local 'ret_mbsum'
    ret_bucky,        \* main's local 'ret_bucky'
    ret_pre_bucky,    \* main's local 'ret_pre_bucky' (0: unbound)
    ret_sad,          \* main's local 'ret_sad' (0: unbound)
    ret_mb,           \* main's local 'ret_mb' (0: unbound)
    ret_post_bucky,   \* main's local 'ret_post_bucky' (0: unbound)
    ret_ast,          \* main's local 'ret_ast' (0: unbound)
    ret_snq,          \* main's local 'ret_snq' (0: unbound)
    ret_spd,          \* main's local 'ret_spd' (0: unbound)
    ret_phylonet,     \* main's local 'ret_phylonet' (0: unbound)
    top,              \* per dataset, the futures appended to 'result' in the second loop
    error             \* exception that ended main ("none" while it runs)

vars == <<tree_method, network_method, work_list, datalist, tasks, queue, pc,
          idx, k, result, ret_tree, ret_mbsum, ret_bucky, ret_pre_bucky,
          ret_sad, ret_mb, ret_post_bucky, ret_ast, ret_snq, ret_spd,
          ret_phylonet, top, error>>

config == <<tree_method, network_method, work_list>>
kernel == <<tasks, queue>>
chain == <<ret_mb, ret_post_bucky, ret_ast, ret_snq, ret_spd, ret_phylonet>>
locals == <<ret_tree, ret_mbsum, ret_bucky, ret_pre_bucky, ret_sad, chain>>

\* ------------------------------------------------------------- apps.py
\* executors=[...] of the decorator of each app
Executor_iqtree_single(app) ==
    CASE app \in {"raxml"} -> "raxml"
      [] app \in {"snaq", "phylonet"} -> "snaq"
      [] OTHER -> "single_thread"

Executor(app) ==
    CASE app \in {"raxml", "iqtree"} -> "raxml"
      [] app \in {"snaq", "phylonet"} -> "snaq"
      [] OTHER -> "single_thread"

Pools == {"single_thread", "raxml", "snaq"}

PoolLimit(p) ==
    CASE p = "single_thread" -> LimitSingleThread
      [] p = "raxml" -> LimitRaxml
      [] p = "snaq" -> LimitSnaq

\* The value given as inputs= in an app call: a list of futures, one bare
\* future, or a list whose single element is a list of futures.
Flat(futs) == [kind |-> "flat", futs |-> futs]
Single(fut) == [kind |-> "single", futs |-> <<fut>>]
Nested(futs) == [kind |-> "nested", futs |-> futs]

\* Futures the kernel finds in inputs: the elements that are futures.  A
\* list inside the list is not a future and registers no dependency.
GatherDeps(inp) == IF inp.kind = "nested" THEN {} ELSE Range(inp.futs)

\* Every future handed over in inputs, however it is wrapped.
PassedFutures(inp) == Range(inp.futs)

Task(app, d, input_file, prune_file, folders, inp) ==
    [app |-> app, ds |-> d, input_file |-> input_file, prune_file |-> prune_file,
     folders |-> folders, pool |-> Executor(app), inputs |-> inp,
     ups |-> GatherDeps(inp), st |-> "Pending", err |-> "none", cause |-> 0]

Ids == 1..Len(tasks)
Terminal(t) == tasks[t].st \in {"Resolved", "Failed"}
TasksOf(app, d) == {t \in Ids : tasks[t].app = app /\ tasks[t].ds = d}
TasksOfDs(d) == {t \in Ids : tasks[t].ds = d}

\* wait_for_all(futures) returns once every future of the list is terminal
wait_for_all_any(futs) == \E x \in 1..Len(futs) : Terminal(futs[x])

wait_for_all(futs) == \A x \in 1..Len(futs) : Terminal(futs[x])

\* ------------------------------------------------- the data-flow kernel
\* State of task t of the list ts once the kernel has looked at the futures
\* in its inputs: failed when one of them failed (the error refers to the
\* task where the failure originates), queued when all resolved.
Settle(ts, t) ==
    LET failedUps == {u \in t.ups : ts[u].st = "Failed"}
    IN IF failedUps # {}
         THEN [t EXCEPT !.st = "Failed", !.err = "UpstreamBlockedError",
                        !.cause = ts[Min(failedUps)].cause]
       ELSE IF \A u \in t.ups : ts[u].st = "Resolved"
         THEN [t EXCEPT !.st = "Queued"]
       ELSE t

Enqueue(q, t, id) == IF t.st = "Queued" THEN [q EXCEPT ![t.pool] = Append(@, id)] ELSE q

\* Submission of the tasks of 'new', in order
RECURSIVE Submit(_, _, _)
Submit(ts, q, new) ==
    IF new = <<>> THEN [tasks |-> ts, queue |-> q]
    ELSE LET t == Settle(ts, Head(new))
         IN Submit(Append(ts, t), Enqueue(q, t, Len(ts) + 1), Tail(new))

\* Notification of the waiters after a future became terminal: every task
\* still waiting for its inputs, from task i on, in submission order
RECURSIVE Propagate(_, _, _)
Propagate(ts, q, i) ==
    IF i > Len(ts) THEN [tasks |-> ts, queue |-> q]
    ELSE IF ts[i].st # "Pending" THEN Propagate(ts, q, i + 1)
    ELSE LET t == Settle(ts, ts[i])
         IN Propagate([ts EXCEPT ![i] = t], Enqueue(q, t, i), i + 1)

Running(p) == {t \in Ids : tasks[t].pool = p /\ tasks[t].st = "Running"}
BodyFailures == {t \in Ids : tasks[t].err = "TaskExecutionError"}

\* The executor p takes the task at the head of its queue into a free slot
\* and the body of the task starts.
StartTask_nolimit(p) ==
    /\ queue[p] # <<>>
    /\ tasks' = [tasks EXCEPT ![Head(queue[p])].st = "Running"]
    /\ queue' = [queue EXCEPT ![p] = Tail(@)]
    /\ UNCHANGED <<config, datalist, pc, idx, k, result, locals, top, error>>

StartTask(p) ==
    /\ queue[p] # <<>>
    /\ Cardinality(Running(p)) < PoolLimit(p)
    /\ tasks' = [tasks EXCEPT ![Head(queue[p])].st = "Running"]
    /\ queue' = [queue EXCEPT ![p] = Tail(@)]
    /\ UNCHANGED <<config, datalist, pc, idx, k, result, locals, top, error>>

\* The body returns: the future resolves and its waiters are notified
ResolveTask(t) ==
    /\ tasks[t].st = "Running"
    /\ LET s == Propagate([tasks EXCEPT ![t].st = "Resolved"], queue, t + 1)
       IN tasks' = s.tasks /\ queue' = s.queue
    /\ UNCHANGED <<config, datalist, pc, idx, k, result, locals, top, error>>

\* The body raises or its command exits with an error: the future fails
\* and its waiters are notified
FailTask(t) ==
    /\ tasks[t].st = "Running"
    /\ Cardinality(BodyFailures) < MaxFailures
    /\ LET s == Propagate([tasks EXCEPT ![t].st = "Failed",
                                        ![t].err = "TaskExecutionError",
                                        ![t].cause = t], queue, t + 1)
       IN tasks' = s.tasks /\ queue' = s.queue
    /\ UNCHANGED <<config, datalist, pc, idx, k, result, locals, top, error>>

\* ------------------------------------------------------------------ Init
Init ==
    /\ tree_method \in TreeMethodValues
    /\ network_method \in NetworkMethodValues
    /\ work_list \in Workloads
    /\ datalist = <<>>
    /\ tasks = <<>>
    /\ queue = [p \in Pools |-> <<>>]
    /\ pc = "setup"
    /\ idx = 1
    /\ k = 1
    /\ result = <<>>
    /\ ret_tree = <<>>
    /\ ret_mbsum = <<>>
    /\ ret_bucky = <<>>
    /\ ret_pre_bucky = 0
    /\ ret_sad = 0
    /\ ret_mb = 0
    /\ ret_post_bucky = 0
    /\ ret_ast = 0
    /\ ret_snq = 0
    /\ ret_spd = 0
    /\ ret_phylonet = 0
    /\ top = [d \in 1..Len(work_list) |-> <<>>]
    /\ error = "none"

\* -------------------------------------------- main, lines 26-45: setup
\* folder_list of lines 29-40
folder_list ==
    (IF tree_method = "ML-RAXML" THEN <<"raxml">>
     ELSE IF tree_method = "ML-IQTREE" THEN <<"iqtree">> ELSE <<>>)
    \o
    (IF network_method = "MPL"
       THEN (IF network_method # "BI_MRBAYES" THEN <<"astral">> ELSE <<>>) \o <<"snaq">>
     ELSE IF tree_method = "BI_MRBAYES" THEN <<"mrbayes", "bucky", "mbsum", "qmc">>
     ELSE <<>>)

\* convert_to_phylip of lines 27-39
convert_to_phylip == ~(network_method # "MPL" /\ tree_method = "BI_MRBAYES")

\* Lines 26-42 of an iteration of the first loop when convert_to_phylip is
\* False: the call of setup_phylip_data
SetupPhylipData ==
    /\ pc = "setup"
    /\ idx <= Len(work_list)
    /\ ~convert_to_phylip
    /\ LET s == Submit(tasks, queue,
                       <<Task("setup_phylip_data", idx, 0, <<>>, <<>>, Flat(<<>>))>>)
       IN tasks' = s.tasks /\ queue' = s.queue
    /\ result' = Append(result, Len(tasks) + 1)
    /\ pc' = "setup_folders"
    /\ UNCHANGED <<config, datalist, idx, k, locals, top, error>>

\* Line 43 (after lines 26-41 when convert_to_phylip is True): the call of
\* create_folders, which ends the iteration
CreateFolders ==
    /\ \/ pc = "setup" /\ idx <= Len(work_list) /\ convert_to_phylip
       \/ pc = "setup_folders"
    /\ LET s == Submit(tasks, queue,
                       <<Task("create_folders", idx, 0, <<>>, folder_list, Flat(<<>>))>>)
       IN tasks' = s.tasks /\ queue' = s.queue
    /\ result' = Append(result, Len(tasks) + 1)
    /\ idx' = idx + 1
    /\ pc' = "setup"
    /\ UNCHANGED <<config, datalist, k, locals, top, error>>

\* End of the first loop; wait_for_all(result) of line 44 follows
SetupLoopEnd ==
    /\ pc = "setup"
    /\ idx > Len(work_list)
    /\ pc' = "wait_setup"
    /\ UNCHANGED <<config, datalist, kernel, idx, k, result, locals, top, error>>

\* Lines 44-45: wait_for_all(result); result = list()
WaitSetup ==
    /\ pc = "wait_setup"
    /\ wait_for_all(result)
    /\ result' = <<>>
    /\ idx' = 1
    /\ pc' = "dataset"
    /\ UNCHANGED <<config, datalist, kernel, k, locals, top, error>>

\* ------------------------------------ main, lines 46-86: tree inference
\* Head of the second loop over work_list (lines 46-58, 63, 68, 85): a new
\* ret_tree, the datalist that glob finds for the dataset, and the branch
\* on tree_method.
BeginDataset_keep ==
    /\ pc = "dataset"
    /\ idx <= Len(work_list)
    /\ \E n \in 0..MaxFiles : datalist' = Append(datalist, n)
    /\ ret_tree' = ret_tree
    /\ k' = 1
    /\ pc' = IF tree_method = "ML-RAXML" THEN "raxml_loop"
             ELSE IF tree_method = "ML-IQTREE" THEN "iqtree_loop"
             ELSE IF tree_method = "BI_MRBAYES" THEN "mrbayes_loop"
             ELSE "tree_else"
    /\ ret_mbsum' = IF tree_method = "BI_MRBAYES" THEN <<>> ELSE ret_mbsum
    /\ UNCHANGED <<config, kernel, idx, result, ret_bucky, ret_pre_bucky, ret_sad, chain,
                   top, error>>

BeginDataset ==
    /\ pc = "dataset"
    /\ idx <= Len(work_list)
    /\ \E n \in 0..MaxFiles : datalist' = Append(datalist, n)
    /\ ret_tree' = <<>>
    /\ k' = 1
    /\ pc' = IF tree_method = "ML-RAXML" THEN "raxml_loop"
             ELSE IF tree_method = "ML-IQTREE" THEN "iqtree_loop"
             ELSE IF tree_method = "BI_MRBAYES" THEN "mrbayes_loop"
             ELSE "tree_else"
    /\ ret_mbsum' = IF tree_method = "BI_MRBAYES" THEN <<>> ELSE ret_mbsum
    /\ UNCHANGED <<config, kernel, idx, result, ret_bucky, ret_pre_bucky, ret_sad, chain,
                   top, error>>

\* The second loop is over; wait_for_all(result) of line 99 follows
DatasetLoopEnd ==
    /\ pc = "dataset"
    /\ idx > Len(work_list)
    /\ pc' = "wait_result"
    /\ UNCHANGED <<config, datalist, kernel, idx, k, result, locals, top, error>>

\* inputs of a per-file ML tree task: the default of the app, inputs=[]
TreeInputs_chain(rt) == IF Len(rt) = 0 THEN Flat(<<>>) ELSE Flat(<<rt[Len(rt)]>>)

TreeInputs(rt) == Flat(<<>>)

\* Lines 59-61: one raxml task per file of datalist
RaxmlSubmit ==
    /\ pc = "raxml_loop"
    /\ k <= datalist[idx]
    /\ LET s == Submit(tasks, queue, <<Task("raxml", idx, k, <<>>, <<>>, TreeInputs(ret_tree))>>)
       IN tasks' = s.tasks /\ queue' = s.queue
    /\ ret_tree' = Append(ret_tree, Len(tasks) + 1)
    /\ k' = k + 1
    /\ UNCHANGED <<config, datalist, pc, idx, result, ret_mbsum, ret_bucky,
                   ret_pre_bucky, ret_sad, chain, top, error>>

RaxmlLoopEnd ==
    /\ pc = "raxml_loop"
    /\ k > datalist[idx]
    /\ pc' = "wait_raxml"
    /\ UNCHANGED <<config, datalist, kernel, idx, k, result, locals, top, error>>

\* Line 62: wait_for_all(ret_tree)
WaitRaxml ==
    /\ pc = "wait_raxml"
    /\ wait_for_all(ret_tree)
    /\ pc' = "network"
    /\ UNCHANGED <<config, datalist, kernel, idx, k, result, locals, top, error>>

\* Lines 64-66: one iqtree task per file of datalist
IqtreeSubmit ==
    /\ pc = "iqtree_loop"
    /\ k <= datalist[idx]
    /\ LET s == Submit(tasks, queue, <<Task("iqtree", idx, k, <<>>, <<>>, TreeInputs(ret_tree))>>)
       IN tasks' = s.tasks /\ queue' = s.queue
    /\ ret_tree' = Append(ret_tree, Len(tasks) + 1)
    /\ k' = k + 1
    /\ UNCHANGED <<config, datalist, pc, idx, result, ret_mbsum, ret_bucky,
                   ret_pre_bucky, ret_sad, chain, top, error>>

IqtreeLoopEnd ==
    /\ pc = "iqtree_loop"
    /\ k > datalist[idx]
    /\ pc' = "wait_iqtree"
    /\ UNCHANGED <<config, datalist, kernel, idx, k, result, locals, top, error>>

\* Line 67: wait_for_all(ret_tree)
WaitIqtree ==
    /\ pc = "wait_iqtree"
    /\ wait_for_all(ret_tree)
    /\ pc' = "network"
    /\ UNCHANGED <<config, datalist, kernel, idx, k, result, locals, top, error>>

\* inputs of mbsum at line 72: inputs = [ret_mb]
MbsumInputs_empty(fut) == Flat(<<>>)

MbsumInputs(fut) == Flat(<<fut>>)

\* Line 71: per file, the call of mrbayes
MrbayesSubmit ==
    /\ pc = "mrbayes_loop"
    /\ k <= datalist[idx]
    /\ LET s == Submit(tasks, queue, <<Task("mrbayes", idx, k, <<>>, <<>>, Flat(<<>>))>>)
       IN tasks' = s.tasks /\ queue' = s.queue
    /\ ret_mb' = Len(tasks) + 1
    /\ pc' = "mbsum_call"
    /\ UNCHANGED <<config, datalist, idx, k, result, ret_tree, ret_mbsum, ret_bucky,
                   ret_pre_bucky, ret_sad, ret_post_bucky, ret_ast, ret_snq, ret_spd,
                   ret_phylonet, top, error>>

\* Line 72: the call of mbsum on the future of mrbayes, appended to ret_mbsum
MbsumSubmit ==
    /\ pc = "mbsum_call"
    /\ LET s == Submit(tasks, queue,
                       <<Task("mbsum", idx, k, <<>>, <<>>, MbsumInputs(ret_mb))>>)
       IN tasks' = s.tasks /\ queue' = s.queue
    /\ ret_mbsum' = Append(ret_mbsum, Len(tasks) + 1)
    /\ k' = k + 1
    /\ pc' = "mrbayes_loop"
    /\ UNCHANGED <<config, datalist, idx, result, ret_tree, ret_bucky,
                   ret_pre_bucky, ret_sad, chain, top, error>>

MrbayesLoopEnd ==
    /\ pc = "mrbayes_loop"
    /\ k > datalist[idx]
    /\ pc' = "wait_mbsum"
    /\ UNCHANGED <<config, datalist, kernel, idx, k, result, locals, top, error>>

\* prune_trees of line 75: the path of the bucky folder, a string
prune_trees(d) == path_join(work_list[d], <<"b", "u", "c", "k", "y">>)

\* Lines 73-76: wait_for_all(ret_mbsum), then setup_bucky_data on the list
\* of mbsum futures wrapped in a list
WaitMbsum_nowait ==
    /\ pc = "wait_mbsum"
    /\ LET s == Submit(tasks, queue,
                       <<Task("setup_bucky_data", idx, 0, <<>>, <<>>, Nested(ret_mbsum))>>)
       IN tasks' = s.tasks /\ queue' = s.queue
    /\ ret_pre_bucky' = Len(tasks) + 1
    /\ ret_bucky' = <<>>
    /\ k' = 1
    /\ pc' = "bucky_loop"
    /\ UNCHANGED <<config, datalist, idx, result, ret_tree, ret_mbsum, ret_sad, chain,
                   top, error>>

WaitMbsum ==
    /\ pc = "wait_mbsum"
    /\ wait_for_all(ret_mbsum)
    /\ LET s == Submit(tasks, queue,
                       <<Task("setup_bucky_data", idx, 0, <<>>, <<>>, Nested(ret_mbsum))>>)
       IN tasks' = s.tasks /\ queue' = s.queue
    /\ ret_pre_bucky' = Len(tasks) + 1
    /\ ret_bucky' = <<>>
    /\ k' = 1
    /\ pc' = "bucky_loop"
    /\ UNCHANGED <<config, datalist, idx, result, ret_tree, ret_mbsum, ret_sad, chain,
                   top, error>>

\* Lines 77-78: one bucky task per element of prune_trees
BuckySubmit ==
    /\ pc = "bucky_loop"
    /\ k <= Len(prune_trees(idx))
    /\ LET s == Submit(tasks, queue,
                       <<Task("bucky", idx, 0, <<prune_trees(idx)[k]>>, <<>>,
                              Flat(<<ret_pre_bucky>>))>>)
       IN tasks' = s.tasks /\ queue' = s.queue
    /\ ret_bucky' = Append(ret_bucky, Len(tasks) + 1)
    /\ k' = k + 1
    /\ UNCHANGED <<config, datalist, pc, idx, result, ret_tree, ret_mbsum,
                   ret_pre_bucky, ret_sad, chain, top, error>>

BuckyLoopEnd ==
    /\ pc = "bucky_loop"
    /\ k > Len(prune_trees(idx))
    /\ pc' = "wait_bucky"
    /\ UNCHANGED <<config, datalist, kernel, idx, k, result, locals, top, error>>

\* Lines 79-80: wait_for_all(ret_bucky), then setup_bucky_output on the list
\* of bucky futures wrapped in a list
WaitBucky ==
    /\ pc = "wait_bucky"
    /\ wait_for_all(ret_bucky)
    /\ LET s == Submit(tasks, queue,
                       <<Task("setup_bucky_output", idx, 0, <<>>, <<>>, Nested(ret_bucky))>>)
       IN tasks' = s.tasks /\ queue' = s.queue
    /\ ret_post_bucky' = Len(tasks) + 1
    /\ pc' = "qmc_data"
    /\ UNCHANGED <<config, datalist, idx, k, result, ret_tree, ret_mbsum, ret_bucky,
                   ret_pre_bucky, ret_sad, ret_mb, ret_ast, ret_snq, ret_spd,
                   ret_phylonet, top, error>>

\* Line 81: setup_qmc_data on the future of setup_bucky_output
SetupQmcData ==
    /\ pc = "qmc_data"
    /\ LET s == Submit(tasks, queue,
                       <<Task("setup_qmc_data", idx, 0, <<>>, <<>>, Flat(<<ret_post_bucky>>))>>)
       IN tasks' = s.tasks /\ queue' = s.queue
    /\ pc' = "qmc"
    /\ UNCHANGED <<config, datalist, idx, k, result, locals, top, error>>

\* Line 82: the attribute lookup apps.setup_qmc, which apps.py does not
\* define: main ends with AttributeError.
SetupQmc ==
    /\ pc = "qmc"
    /\ pc' = "raised"
    /\ error' = "AttributeError"
    /\ UNCHANGED <<config, datalist, kernel, idx, k, result, locals, top>>

\* Lines 85-86: the else branch of the tree_method chain
TreeElse ==
    /\ pc = "tree_else"
    /\ LET s == Submit(tasks, queue,
                       <<Task("setup_tree_output", idx, 0, <<>>, <<>>, Flat(ret_tree))>>)
       IN tasks' = s.tasks /\ queue' = s.queue
    /\ ret_sad' = Len(tasks) + 1
    /\ pc' = "network"
    /\ UNCHANGED <<config, datalist, idx, k, result, ret_tree, ret_mbsum, ret_bucky,
                   ret_pre_bucky, chain, top, error>>

\* ---------------------------------- main, lines 87-98: network inference
\* Lines 87-89 when ret_sad was assigned (only the else branch of line 85
\* assigns it): astral on the future of setup_tree_output
AstralSubmit ==
    /\ pc = "network"
    /\ network_method = "MPL"
    /\ ret_sad # 0
    /\ LET s == Submit(tasks, queue,
                       <<Task("astral", idx, 0, <<>>, <<>>, Flat(<<ret_sad>>))>>)
       IN tasks' = s.tasks /\ queue' = s.queue
    /\ ret_ast' = Len(tasks) + 1
    /\ pc' = "mpl_snaq"
    /\ UNCHANGED <<config, datalist, idx, k, result, ret_tree, ret_mbsum, ret_bucky,
                   ret_pre_bucky, ret_sad, ret_mb, ret_post_bucky, ret_snq, ret_spd,
                   ret_phylonet, top, error>>

\* Line 90: snaq on the future of astral
SnaqSubmit ==
    /\ pc = "mpl_snaq"
    /\ LET s == Submit(tasks, queue,
                       <<Task("snaq", idx, 0, <<>>, <<>>, Flat(<<ret_ast>>))>>)
       IN tasks' = s.tasks /\ queue' = s.queue
    /\ ret_snq' = Len(tasks) + 1
    /\ pc' = "mpl_clear"
    /\ UNCHANGED <<config, datalist, idx, k, result, ret_tree, ret_mbsum, ret_bucky,
                   ret_pre_bucky, ret_sad, ret_mb, ret_post_bucky, ret_ast, ret_spd,
                   ret_phylonet, top, error>>

\* Lines 91-92: clear_temporary_files on the bare future of snaq, appended
\* to result; the iteration ends
ClearMPL ==
    /\ pc = "mpl_clear"
    /\ LET ret_clear == Len(tasks) + 1
           s == Submit(tasks, queue,
                       <<Task("clear_temporary_files", idx, 0, <<>>, <<>>, Single(ret_snq))>>)
       IN /\ tasks' = s.tasks
          /\ queue' = s.queue
          /\ result' = Append(result, ret_clear)
          /\ top' = [top EXCEPT ![idx] = Append(@, ret_clear)]
    /\ idx' = idx + 1
    /\ pc' = "dataset"
    /\ UNCHANGED <<config, datalist, k, locals, error>>

\* Line 89 when no statement has assigned ret_sad: reading the local raises
\* UnboundLocalError and main ends.
NetworkMPLUnbound ==
    /\ pc = "network"
    /\ network_method = "MPL"
    /\ ret_sad = 0
    /\ pc' = "raised"
    /\ error' = "UnboundLocalError"
    /\ UNCHANGED <<config, datalist, kernel, idx, k, result, locals, top>>

\* Lines 93-95: setup_phylonet_data on ret_tree
SetupPhylonetData ==
    /\ pc = "network"
    /\ network_method = "MP"
    /\ LET s == Submit(tasks, queue,
                       <<Task("setup_phylonet_data", idx, 0, <<>>, <<>>, Flat(ret_tree))>>)
       IN tasks' = s.tasks /\ queue' = s.queue
    /\ ret_spd' = Len(tasks) + 1
    /\ pc' = "mp_phylonet"
    /\ UNCHANGED <<config, datalist, idx, k, result, ret_tree, ret_mbsum, ret_bucky,
                   ret_pre_bucky, ret_sad, ret_mb, ret_post_bucky, ret_ast, ret_snq,
                   ret_phylonet, top, error>>

\* Line 96: phylonet on the future of setup_phylonet_data
PhylonetSubmit ==
    /\ pc = "mp_phylonet"
    /\ LET s == Submit(tasks, queue,
                       <<Task("phylonet", idx, 0, <<>>, <<>>, Flat(<<ret_spd>>))>>)
       IN tasks' = s.tasks /\ queue' = s.queue
    /\ ret_phylonet' = Len(tasks) + 1
    /\ pc' = "mp_clear"
    /\ UNCHANGED <<config, datalist, idx, k, result, ret_tree, ret_mbsum, ret_bucky,
                   ret_pre_bucky, ret_sad, ret_mb, ret_post_bucky, ret_ast, ret_snq,
                   ret_spd, top, error>>

\* Lines 97-98: clear_temporary_files on the bare future of phylonet,
\* appended to result; the iteration ends
ClearMP ==
    /\ pc = "mp_clear"
    /\ LET ret_clear == Len(tasks) + 1
           s == Submit(tasks, queue,
                       <<Task("clear_temporary_files", idx, 0, <<>>, <<>>,
                              Single(ret_phylonet))>>)
       IN /\ tasks' = s.tasks
          /\ queue' = s.queue
          /\ result' = Append(result, ret_clear)
          /\ top' = [top EXCEPT ![idx] = Append(@, ret_clear)]
    /\ idx' = idx + 1
    /\ pc' = "dataset"
    /\ UNCHANGED <<config, datalist, k, locals, error>>

\* Neither the if of line 87 nor the elif of line 93 matches: the loop body
\* ends without a network task.
NetworkNone ==
    /\ pc = "network"
    /\ network_method \notin {"MPL", "MP"}
    /\ idx' = idx + 1
    /\ pc' = "dataset"
    /\ UNCHANGED <<config, datalist, kernel, k, result, locals, top, error>>

\* Lines 99-102: wait_for_all(result); return
WaitResult ==
    /\ pc = "wait_result"
    /\ wait_for_all(result)
    /\ pc' = "done"
    /\ UNCHANGED <<config, datalist, kernel, idx, k, result, locals, top, error>>

\* ------------------------------------------------------------------ Next
Next ==
    \/ SetupPhylipData \/ CreateFolders \/ SetupLoopEnd \/ WaitSetup
    \/ BeginDataset \/ DatasetLoopEnd
    \/ RaxmlSubmit \/ RaxmlLoopEnd \/ WaitRaxml
    \/ IqtreeSubmit \/ IqtreeLoopEnd \/ WaitIqtree
    \/ MrbayesSubmit \/ MbsumSubmit \/ MrbayesLoopEnd \/ WaitMbsum
    \/ BuckySubmit \/ BuckyLoopEnd \/ WaitBucky \/ SetupQmcData \/ SetupQmc
    \/ TreeElse
    \/ AstralSubmit \/ SnaqSubmit \/ ClearMPL \/ NetworkMPLUnbound
    \/ SetupPhylonetData \/ PhylonetSubmit \/ ClearMP \/ NetworkNone
    \/ WaitResult
    \/ \E p \in Pools : StartTask(p)
    \/ \E t \in Ids : ResolveTask(t)
    \/ \E t \in Ids : FailTask(t)

Spec == Init /\ [][Next]_vars

\* A step of main, a step of an executor, the end of a running body
MainStep ==
    \/ SetupPhylipData \/ CreateFolders \/ SetupLoopEnd \/ WaitSetup
    \/ BeginDataset \/ DatasetLoopEnd
    \/ RaxmlSubmit \/ RaxmlLoopEnd \/ WaitRaxml
    \/ IqtreeSubmit \/ IqtreeLoopEnd \/ WaitIqtree
    \/ MrbayesSubmit \/ MbsumSubmit \/ MrbayesLoopEnd \/ WaitMbsum
    \/ BuckySubmit \/ BuckyLoopEnd \/ WaitBucky \/ SetupQmcData \/ SetupQmc
    \/ TreeElse
    \/ AstralSubmit \/ SnaqSubmit \/ ClearMPL \/ NetworkMPLUnbound
    \/ SetupPhylonetData \/ PhylonetSubmit \/ ClearMP \/ NetworkNone
    \/ WaitResult
PoolStep == \E p \in Pools : StartTask(p)
BodyEnd == \E t \in Ids : ResolveTask(t) \/ FailTask(t)

\* Fair scheduling: the thread of main runs while it is not blocked, an
\* executor with a free slot takes the task at the head of its queue, and
\* every running body ends, by return or by failure.
FairSpec ==
    Spec /\ WF_vars(MainStep) /\ WF_vars(PoolStep) /\ WF_vars(BodyEnd)

TypeOK ==
    /\ tree_method \in TreeMethodValues
    /\ network_method \in NetworkMethodValues
    /\ pc \in {"setup", "setup_folders", "wait_setup", "dataset", "raxml_loop",
               "wait_raxml", "iqtree_loop", "wait_iqtree", "mrbayes_loop",
               "mbsum_call", "wait_mbsum", "bucky_loop", "wait_bucky", "qmc_data",
               "qmc", "tree_else", "network", "mpl_snaq", "mpl_clear",
               "mp_phylonet", "mp_clear", "wait_result", "done", "raised"}
    /\ \A f \in {ret_mb, ret_post_bucky, ret_ast, ret_snq, ret_spd, ret_phylonet} :
          f \in 0..Len(tasks)
    /\ \A t \in Ids : /\ tasks[t].st \in {"Pending", "Queued", "Running", "Resolved", "Failed"}
                      /\ tasks[t].ups \subseteq 1..(t - 1)
                      /\ tasks[t].ds \in 1..Len(work_list)
    /\ \A p \in Pools : \A x \in 1..Len(queue[p]) :
          tasks[queue[p][x]].st = "Queued" /\ tasks[queue[p][x]].pool = p

\* ------------------------------------------------------- vocabulary
MLMethods == {"ML-RAXML", "ML-IQTREE"}
TreeApp == IF tree_method = "ML-RAXML" THEN "raxml" ELSE "iqtree"
TreeApps == {"raxml", "iqtree", "mrbayes"}
NetworkApps == {"astral", "snaq", "setup_phylonet_data", "phylonet"}

\* Datasets whose iteration of the second loop has begun
Begun == 1..Len(datalist)

\* main has ended, by return or by an exception
Ended == pc \in {"done", "raised"}

\* main has left the per-file loop of dataset d
FanOutOver(d) ==
    d \in Begun /\ (d < idx \/ pc \notin {"raxml_loop", "iqtree_loop", "mrbayes_loop",
                                           "mbsum_call"})

\* main has left the tree-inference stage of dataset d
TreeStageOver(d) ==
    d \in Begun /\ (d < idx \/ pc \in {"network", "mpl_snaq", "mpl_clear",
                                         "mp_phylonet", "mp_clear"})

\* The body of task t has started
Started(t) ==
    \/ tasks[t].st \in {"Running", "Resolved"}
    \/ tasks[t].st = "Failed" /\ tasks[t].err = "TaskExecutionError"

FilesOf(T) == {tasks[t].input_file : t \in T}

\* Outcome of dataset d: that of its top-level future
Succeeded(d) == Len(top[d]) = 1 /\ tasks[top[d][1]].st = "Resolved"

\* Tasks whose futures reach task t through inputs, directly or not
RECURSIVE Upstream(_)
Upstream(t) ==
    LET P == PassedFutures(tasks[t].inputs)
    IN P \cup UNION {Upstream(u) : u \in P}

\* ------------------------------------------------------------- claims
\* C1: with ML-RAXML, MPL and a dataset of 3 input files, all bodies
\* succeeding, main ends with 3 independent raxml tasks, one
\* setup_tree_output task over those 3, astral, snaq and one
\* clear_temporary_files task for the dataset, and the dataset Succeeded.
C1_ScenarioOne ==
    (tree_method = "ML-RAXML" /\ network_method = "MPL" /\ Ended /\ BodyFailures = {})
    => \A d \in Begun : datalist[d] = 3 =>
         /\ Cardinality(TasksOf("raxml", d)) = 3
         /\ \A t \in TasksOf("raxml", d) : PassedFutures(tasks[t].inputs) = {}
         /\ Cardinality(TasksOf("setup_tree_output", d)) = 1
         /\ \A a \in TasksOf("setup_tree_output", d) :
               PassedFutures(tasks[a].inputs) = TasksOf("raxml", d)
         /\ Cardinality(TasksOf("astral", d)) = 1
         /\ Cardinality(TasksOf("snaq", d)) = 1
         /\ Cardinality(TasksOf("clear_temporary_files", d)) = 1
         /\ Succeeded(d)

\* C2: with an ML tree method, once main has left the tree stage of a
\* dataset there is a setup_tree_output task of that dataset whose upstream
\* set is exactly its per-file tree tasks, and no network task of a dataset
\* exists without it.
C2_FanInExists ==
    tree_method \in MLMethods =>
      \A d \in Begun :
        /\ TreeStageOver(d) =>
             \E a \in TasksOf("setup_tree_output", d) :
                 PassedFutures(tasks[a].inputs) = TasksOf(TreeApp, d)
        /\ (\E n \in TasksOfDs(d) : tasks[n].app \in NetworkApps)
             => TasksOf("setup_tree_output", d) # {}

\* C3: with an ML tree method and N files in datalist, the tree stage
\* submits one tree task per file and no other, each without upstream
\* futures and each on the executor 'raxml'; N tasks when the loop is over.
C3_FanOut ==
    tree_method \in MLMethods =>
      \A d \in Begun :
        LET T == {t \in TasksOfDs(d) : tasks[t].app \in TreeApps}
        IN /\ \A t \in T : /\ tasks[t].app = TreeApp
                           /\ tasks[t].ups = {}
                           /\ PassedFutures(tasks[t].inputs) = {}
                           /\ tasks[t].pool = "raxml"
                           /\ tasks[t].input_file \in 1..datalist[d]
           /\ \A t, u \in T : tasks[t].input_file = tasks[u].input_file => t = u
           /\ FanOutOver(d) => FilesOf(T) = 1..datalist[d] /\ Cardinality(T) = datalist[d]

C3_Witness ==
    /\ tree_method = "ML-IQTREE"
    /\ \E d \in Begun : /\ FanOutOver(d)
                        /\ datalist[d] >= 2
                        /\ Cardinality(TasksOf("iqtree", d)) = datalist[d]
                        /\ \E t \in TasksOf("iqtree", d) : tasks[t].st = "Running"

\* C4: with MPL, every dataset that main has dealt with has the chain
\* setup_tree_output -> astral -> snaq: astral's only upstream is the
\* setup_tree_output future of the dataset, snaq's only upstream is astral's
\* future, and neither body starts before its upstream is terminal.
C4_ChainMPL ==
    network_method = "MPL" =>
      \A d \in Begun :
        /\ (d < idx \/ Ended) =>
              /\ Cardinality(TasksOf("astral", d)) = 1
              /\ Cardinality(TasksOf("snaq", d)) = 1
        /\ \A a \in TasksOf("astral", d) :
              /\ \E g \in TasksOf("setup_tree_output", d) : tasks[a].ups = {g}
              /\ Started(a) => \A g \in tasks[a].ups : Terminal(g)
        /\ \A q \in TasksOf("snaq", d) :
              /\ \E a \in TasksOf("astral", d) : tasks[q].ups = {a}
              /\ Started(q) => \A a \in tasks[q].ups : Terminal(a)

\* C5: with MP, setup_phylonet_data of a dataset has the setup_tree_output
\* future of that dataset among its upstream futures and does not start
\* before it is terminal; phylonet depends on setup_phylonet_data only.
C5_ChainMP ==
    network_method = "MP" =>
      \A d \in Begun :
        /\ \A s \in TasksOf("setup_phylonet_data", d) :
              \E g \in TasksOf("setup_tree_output", d) :
                  /\ g \in tasks[s].ups
                  /\ Started(s) => Terminal(g)
        /\ \A p \in TasksOf("phylonet", d) :
              \E s \in TasksOf("setup_phylonet_data", d) : tasks[p].ups = {s}

\* C6: with BI_MRBAYES, every file of a dataset has a mrbayes task without
\* upstream and (once line 72 has run for the file) a mbsum task whose
\* upstream is exactly that mrbayes task; a
\* mbsum body starts only when its mrbayes future is terminal, the chain of
\* a file contains no future of another file, and setup_bucky_data starts
\* only when the mbsum future of every file is terminal.
C6_BayesChains ==
    tree_method = "BI_MRBAYES" =>
      \A d \in Begun :
        LET MB == TasksOf("mrbayes", d)
            MS == TasksOf("mbsum", d)
        IN /\ \A t \in MB : tasks[t].ups = {} /\ PassedFutures(tasks[t].inputs) = {}
           /\ \A m \in MS :
                 /\ \E t \in MB : /\ tasks[t].input_file = tasks[m].input_file
                                  /\ tasks[m].ups = {t}
                                  /\ PassedFutures(tasks[m].inputs) = {t}
                 /\ Started(m) => \A t \in tasks[m].ups : Terminal(t)
           /\ \A t, u \in MB : tasks[t].input_file = tasks[u].input_file => t = u
           /\ \A m, n \in MS : tasks[m].input_file = tasks[n].input_file => m = n
           /\ FilesOf(MS) \subseteq FilesOf(MB)
           /\ (d < idx \/ pc # "mbsum_call") => FilesOf(MB) = FilesOf(MS)
           /\ FanOutOver(d) => FilesOf(MS) = 1..datalist[d]
           /\ \A b \in TasksOf("setup_bucky_data", d) :
                 /\ FilesOf(MS) = 1..datalist[d]
                 /\ Started(b) => \A m \in MS : Terminal(m)

C6_Witness ==
    /\ tree_method = "BI_MRBAYES"
    /\ \E d \in Begun :
         /\ datalist[d] >= 2
         /\ \E b \in TasksOf("setup_bucky_data", d) : Started(b)
         /\ \E m \in TasksOf("mbsum", d) : tasks[m].err = "UpstreamBlockedError"
         /\ \E m \in TasksOf("mbsum", d) : Started(m)

\* C7: for recognized methods, when main has ended it has returned, every
\* dataset has exactly one clear_temporary_files task whose upstream is the
\* last network task (snaq for MPL, phylonet for MP), that future is the
\* only top-level future of the dataset, and it is terminal.
C7_Cleanup ==
    (tree_method \in RecognizedTree /\ network_method \in RecognizedNetwork /\ Ended)
    => /\ pc = "done"
       /\ \A d \in 1..Len(work_list) :
            /\ Cardinality(TasksOf("clear_temporary_files", d)) = 1
            /\ \A c \in TasksOf("clear_temporary_files", d) :
                  /\ \E n \in TasksOf(IF network_method = "MPL" THEN "snaq" ELSE "phylonet", d) :
                        PassedFutures(tasks[c].inputs) = {n}
                  /\ top[d] = <<c>>
                  /\ Terminal(c)

\* C8: with an unrecognized tree method no task of any dataset is ever
\* submitted to an executor.
C8_UnknownTreeMethod == tree_method \notin RecognizedTree => tasks = <<>>

\* C9: with an unrecognized network method main never returns normally
\* leaving a dataset without network task and without cleanup task.
C9_UnknownNetworkMethod ==
    network_method \notin RecognizedNetwork =>
      ~(/\ pc = "done"
        /\ \E d \in 1..Len(work_list) :
             \A t \in TasksOfDs(d) :
                 tasks[t].app \notin NetworkApps \cup {"clear_temporary_files"})

\* C10: when the body of a task A failed, no task that A's future reaches
\* through inputs runs its body, and such a task ends Failed as blocked
\* with A as the cause; a task is blocked only by a task upstream of it.
C10_FailurePropagation ==
    \A t \in Ids :
      /\ \A a \in Upstream(t) :
            tasks[a].err = "TaskExecutionError" =>
              /\ ~Started(t)
              /\ Terminal(t) => /\ tasks[t].err = "UpstreamBlockedError"
                                /\ tasks[tasks[t].cause].err = "TaskExecutionError"
                                /\ tasks[t].cause \in Upstream(t)
      /\ tasks[t].err = "UpstreamBlockedError" =>
            /\ tasks[t].cause \in Upstream(t)
            /\ tasks[tasks[t].cause].err = "TaskExecutionError"

\* C11: when main has ended, the second loop has dealt with every dataset
\* of the batch: neither a failed task nor an error raised while the tasks
\* of one dataset are submitted keeps a later dataset from being processed.
C11_OtherDatasetsRun ==
    Ended => \A d \in 1..Len(work_list) : d \in Begun /\ FanOutOver(d)

\* main is blocked in a wait_for_all of the second loop or after it
InTreeNetworkWait ==
    pc \in {"wait_raxml", "wait_iqtree", "wait_mbsum", "wait_bucky", "wait_result"}

\* C12: whenever main is blocked in the tree/network phase, the per-file
\* tree tasks of every dataset of the batch have been submitted.
C12_SubmitBeforeBlocking ==
    InTreeNetworkWait => \A j \in 1..Len(work_list) : FanOutOver(j)

\* C13: the body of a task never starts while a future handed over in its
\* inputs (in a flat list, as a bare future or in a nested list) is not
\* terminal.
C13_NoStartBeforeUpstream ==
    \A t \in Ids :
      Started(t) => \A a \in PassedFutures(tasks[t].inputs) : Terminal(a)

C13_Witness ==
    \E t \in Ids : /\ tasks[t].inputs.kind = "nested"
                   /\ Len(tasks[t].inputs.futs) >= 2
                   /\ tasks[t].st = "Running"

\* The list main is waiting for in wait_for_all
InWait == pc \in {"wait_setup", "wait_raxml", "wait_iqtree", "wait_mbsum",
                  "wait_bucky", "wait_result"}
WaitList ==
    CASE pc \in {"wait_setup", "wait_result"} -> result
      [] pc \in {"wait_raxml", "wait_iqtree"} -> ret_tree
      [] pc = "wait_mbsum" -> ret_mbsum
      [] pc = "wait_bucky" -> ret_bucky
      [] OTHER -> <<>>
WaitReturns ==
    WaitSetup \/ WaitRaxml \/ WaitIqtree \/ WaitMbsum \/ WaitBucky \/ WaitResult

\* C14: main leaves a wait_for_all only when every future of the list is
\* terminal, and it can leave as soon as they all are, whether none, some
\* or all of them failed and also when the list is empty.
C14_Barrier ==
    /\ [][(InWait /\ pc' # pc) => \A f \in Range(WaitList) : Terminal(f)]_vars
    /\ []((InWait /\ \A f \in Range(WaitList) : Terminal(f)) => ENABLED WaitReturns)

C14_Witness ==
    /\ pc = "network"
    /\ Len(ret_tree) >= 2
    /\ \E f \in Range(ret_tree) : tasks[f].st = "Failed"
    /\ \E f \in Range(ret_tree) : tasks[f].st = "Resolved"

\* C15: no step is submitted twice for the same dataset and the same input
\* (file or prune file).
C15_AtMostOnce ==
    \A t, u \in Ids :
      (/\ tasks[t].app = tasks[u].app
       /\ tasks[t].ds = tasks[u].ds
       /\ tasks[t].input_file = tasks[u].input_file
       /\ tasks[t].prune_file = tasks[u].prune_file) => t = u

\* C16: in every state the number of running bodies of a pool is at most
\* the limit of the pool.
C16_PoolLimit == \A p \in Pools : Cardinality(Running(p)) <= PoolLimit(p)

C16_Witness ==
    /\ Cardinality(Running("raxml")) = PoolLimit("raxml")
    /\ queue["raxml"] # <<>>
    /\ \E d \in Begun : datalist[d] > PoolLimit("raxml") /\ FanOutOver(d)

\* Apps of the first loop of main (folders and phylip conversion)
SetupApps == {"setup_phylip_data", "create_folders"}

\* C17: no task of the tree/network phase is created for a dataset once
\* the body of another tree/network task of that dataset has started.
C17_BuildBeforeRun ==
    [][\A u \in (Len(tasks) + 1)..Len(tasks') :
         \A t \in Ids :
           (tasks[t].ds = tasks'[u].ds /\ tasks[t].app \notin SetupApps)
             => ~Started(t)]_vars

\* C18: every future in the inputs of a task is the future of a task
\* created earlier for the same dataset; hence no task depends on itself,
\* on a later task or on a task of another dataset.
C18_UpstreamEarlierSameDataset ==
    \A t \in Ids :
      /\ \A a \in PassedFutures(tasks[t].inputs) \cup tasks[t].ups :
            a \in Ids /\ a < t /\ tasks[a].ds = tasks[t].ds
      /\ t \notin Upstream(t)

C18_Witness ==
    \E t \in Ids : /\ tasks[t].ds = 2
                   /\ Cardinality(PassedFutures(tasks[t].inputs)) >= 2
                   /\ \E u \in Ids : tasks[u].ds = 1 /\ tasks[u].app \notin SetupApps

\* C19: when main has ended it has returned, and every dataset of the
\* batch has a top-level future that is terminal (its outcome).
C19_OutcomePerDataset ==
    Ended => /\ pc = "done"
             /\ \A d \in 1..Len(work_list) :
                  Len(top[d]) >= 1 /\ \A x \in 1..Len(top[d]) : Terminal(top[d][x])

\* C20: with a recognized tree method and a recognized network method main
\* never raises: no variable is read before it is assigned and every app
\* it calls exists.
C20_NoOrchestratorError ==
    (tree_method \in RecognizedTree /\ network_method \in RecognizedNetwork)
      => (pc # "raised" /\ error = "none")

\* Working folders of the tools that the selected branches run
RequiredFolders ==
    (IF tree_method = "ML-RAXML" THEN {"raxml"}
     ELSE IF tree_method = "ML-IQTREE" THEN {"iqtree"}
     ELSE IF tree_method = "BI_MRBAYES" THEN {"mrbayes", "mbsum", "bucky", "qmc"}
     ELSE {})
    \cup (IF network_method = "MPL" THEN {"astral", "snaq"} ELSE {})

\* C21: for recognized methods the folders given to every create_folders
\* task contain the working folder of every tool of the selected branches.
C21_Folders ==
    (tree_method \in RecognizedTree /\ network_method \in RecognizedNetwork)
      => \A t \in Ids : tasks[t].app = "create_folders"
                          => RequiredFolders \subseteq Range(tasks[t].folders)

\* The first loop has dealt with dataset d
SetupOver(d) ==
    d \in 1..Len(work_list) /\ (pc \notin {"setup", "setup_folders"} \/ d < idx)

\* C22: once the setup of a dataset is over, a setup_phylip_data task of
\* the dataset exists exactly when convert_to_phylip is true, and that is
\* exactly when the tree method is not BI_MRBAYES (phylip input is read).
C22_PhylipConversion ==
    \A d \in 1..Len(work_list) :
      SetupOver(d) =>
        /\ (TasksOf("setup_phylip_data", d) # {}) <=> convert_to_phylip
        /\ convert_to_phylip <=> (tree_method # "BI_MRBAYES")

\* The folder in which the body of mrbayes writes (apps.py line 252)
mb_folder == "mrbayes"

\* C23: when a tree-inference task exists, every dataset of the batch has
\* its create_folders task and every task of the setup stage is terminal;
\* and when the body of a tree-inference task of a dataset has started, the
\* create_folders task of that dataset has succeeded and, for mrbayes, the
\* folder it writes into was among the folders to create.
C23_FoldersBeforeTools ==
    /\ (\E t \in Ids : tasks[t].app \in TreeApps) =>
         /\ \A d \in 1..Len(work_list) : TasksOf("create_folders", d) # {}
         /\ \A u \in Ids : tasks[u].app \in SetupApps => Terminal(u)
    /\ \A t \in Ids :
         (tasks[t].app \in TreeApps /\ Started(t)) =>
           \A c \in TasksOf("create_folders", tasks[t].ds) :
             /\ tasks[c].st = "Resolved"
             /\ tasks[t].app = "mrbayes" => mb_folder \in Range(tasks[c].folders)

\* Without any failed body, C23 for the folders alone: the folder of mrbayes
\* is among the folders of the create_folders task of the dataset
MrbayesFolderListed ==
    \A t \in Ids :
      (tasks[t].app = "mrbayes" /\ Started(t) /\ BodyFailures = {}) =>
        \A c \in TasksOf("create_folders", tasks[t].ds) :
          mb_folder \in Range(tasks[c].folders)

\* The suffix of the files written by setup_bucky_data (apps.py line 364)
PruneSuffix == <<"-", "p", "r", "u", "n", "e", ".", "t", "x", "t">>

\* f is the path of a prune-tree file of dataset d: a file of the bucky
\* folder of d whose name ends with -prune.txt
IsPruneFile(d, f) ==
    LET dir == prune_trees(d) \o <<"/">>
    IN /\ Len(f) > Len(dir) + Len(PruneSuffix)
       /\ SubSeq(f, 1, Len(dir)) = dir
       /\ SubSeq(f, Len(f) - Len(PruneSuffix) + 1, Len(f)) = PruneSuffix

\* C24: with BI_MRBAYES every bucky task of a dataset has the path of a
\* prune-tree file of that dataset as prune_file, no two of them have the
\* same file, each depends on the setup_bucky_data future of the dataset,
\* and setup_bucky_output starts only when every bucky future is terminal.
C24_BuckyFanOut ==
    tree_method = "BI_MRBAYES" =>
      \A d \in Begun :
        LET B == TasksOf("bucky", d)
        IN /\ \A b \in B : /\ IsPruneFile(d, tasks[b].prune_file)
                           /\ tasks[b].ups = TasksOf("setup_bucky_data", d)
                           /\ Cardinality(tasks[b].ups) = 1
           /\ \A b, e \in B : tasks[b].prune_file = tasks[e].prune_file => b = e
           /\ \A o \in TasksOf("setup_bucky_output", d) :
                 Started(o) => \A b \in B : Terminal(b)

\* C25: under fair scheduling, with recognized methods main eventually
\* returns, whatever the size of the batch and the number of input files.
C25_MainReturns ==
    (tree_method \in RecognizedTree /\ network_method \in RecognizedNetwork)
      => <>(pc = "done")

\* Under fair scheduling main always ends, by return or by an exception: no
\* wait_for_all blocks forever.
MainEnds == <>Ended

====
